---- MODULE Spec2Model ----
(***************************************************************************)
(* The Express item service of express_basics.js (src/unnamed/part_000):   *)
(* the in-memory store, validateItem on both of its paths (Joi schema and  *)
(* manual fallback), authStub, the routes /me and /items, the central      *)
(* error handler, and start()'s graceful shutdown.                         *)
(*                                                                         *)
(* A JavaScript string is a sequence of one-character strings, so that     *)
(* trim(), length and String(number) are computed and not assumed.  A      *)
(* JavaScript value of unknown type is a tagged record: [t |-> "string",   *)
(* v |-> s], [t |-> "boolean", v |-> b] or Undefined.  The model covers    *)
(* the requests that reach the router.                                     *)
(***************************************************************************)
EXTENDS Naturals, Sequences, FiniteSets

VARIABLES
  joi,      \* whether require('joi') succeeded: itemSchema is set (line 57)
  items,    \* store.items
  now,      \* the value Date.now() returns
  req,      \* the request handled last: [op, id, body, token, err] as it has them
  res,      \* the response to it: [status, json, by]
  nPost,    \* number of POST /items answered 201 (history)
  nDel,     \* number of DELETE /items/:id answered removed:true (history)
  nGone,    \* number of items deleted so far (history)
  phase,    \* "listening", "closing" or "exited"
  conns,    \* open connections of the server
  timers,   \* pending force-exit timeouts
  closeCbs, \* callbacks registered by server.close
  sigs,     \* termination signals delivered so far
  closed,   \* whether the server emitted 'close' (history)
  fired,    \* whether a force-exit timeout has fired (history)
  exit      \* <<>> while the process runs, <<code>> after process.exit(code)

vars == <<joi, items, now, req, res, nPost, nDel, nGone,
          phase, conns, timers, closeCbs, sigs, closed, fired, exit>>

lifeVars == <<phase, conns, timers, closeCbs, sigs, closed, fired, exit>>

-----------------------------------------------------------------------------
(* Bounds of the model *)

\* The first instant the model's clock shows.
T0 == 9
\* How many POST /items may succeed.
MaxPosts == 2
\* How many connections may be open at once.
MaxConns == 3
\* How many termination signals may be delivered.
MaxSignals == 3

\* The last instant the model's clock shows: one millisecond later.
MaxNow == T0 + 1

-----------------------------------------------------------------------------
(* Program constants *)

\* Joi.string().min(1)
MinNameLen == 1
\* Joi.string().max(120)
MaxNameLen == 120
\* process.exit(0) in the callback of server.close
ExitGraceful == 0
\* process.exit(1) in the force-exit timeout
ExitForced == 1
\* the status the error handler falls back to
DefaultErrorStatus == 500

-----------------------------------------------------------------------------
(* JavaScript values and strings *)

Undefined == [t |-> "undefined"]
StrV(s) == [t |-> "string", v |-> s]
BoolV(b) == [t |-> "boolean", v |-> b]

\* typeof x === 'string'
IsString(x) == x.t = "string"

\* White space as String.prototype.trim sees it.
IsSpace(c) == c \in {" ", "\t", "\n"}

RECURSIVE TrimStart(_)
TrimStart(s) ==
  IF s # <<>> /\ IsSpace(Head(s)) THEN TrimStart(Tail(s)) ELSE s

RECURSIVE TrimEnd(_)
TrimEnd(s) ==
  IF s # <<>> /\ IsSpace(s[Len(s)]) THEN TrimEnd(SubSeq(s, 1, Len(s) - 1)) ELSE s

\* String.prototype.trim
Trim(s) == TrimEnd(TrimStart(s))

Digits == <<"0", "1", "2", "3", "4", "5", "6", "7", "8", "9">>

\* String(n) for a non-negative integer: its decimal digits.
RECURSIVE ToString(_)
ToString(n) ==
  IF n < 10 THEN <<Digits[n + 1]>>
  ELSE Append(ToString(n \div 10), Digits[(n % 10) + 1])

\* JavaScript truthiness: !!x
Truthy(x) ==
  CASE x.t = "undefined" -> FALSE
    [] x.t = "string" -> x.v # <<>>
    [] x.t = "boolean" -> x.v

\* The string made of n copies of "a".
RECURSIVE Rep(_)
Rep(n) == IF n = 0 THEN <<>> ELSE Append(Rep(n - 1), "a")

-----------------------------------------------------------------------------
(* Validation *)

\* An error object: new Error(message) with err.status set.
Err(status, message) == [status |-> status, message |-> message]
\* An error object without a status.
PlainErr(message) == [message |-> message]

Thrown(err) == [ok |-> FALSE, err |-> err]
Returned(value) == [ok |-> TRUE, value |-> value]

\* Joi.string().min(1).max(120).required() on body.name: the error message,
\* or "" when the value passes.  Joi does not trim.
JoiNameError(v) ==
  CASE v.t = "undefined" -> "\"name\" is required"
    [] v.t # "string" -> "\"name\" must be a string"
    [] v.v = <<>> -> "\"name\" is not allowed to be empty"
    [] Len(v.v) < MinNameLen -> "\"name\" length must be at least 1 characters long"
    [] Len(v.v) > MaxNameLen ->
         "\"name\" length must be less than or equal to 120 characters long"
    [] OTHER -> ""

\* Joi.boolean() converts the strings "true" and "false".
JoiIsBoolean(v) ==
  \/ v.t = "boolean"
  \/ v.t = "string" /\ v.v \in {<<"t", "r", "u", "e">>, <<"f", "a", "l", "s", "e">>}

\* Joi.boolean().default(false) on body.done, for a value that passes.
JoiDone(v) ==
  CASE v.t = "undefined" -> FALSE
    [] v.t = "boolean" -> v.v
    [] OTHER -> v.v = <<"t", "r", "u", "e">>

\* itemSchema.validate(body): an undefined body passes (the object schema is
\* not required()), keys outside the schema are refused.
SchemaValidate(body) ==
  IF body = Undefined THEN Returned(<<>>)
  ELSE IF JoiNameError(body.name) # "" THEN Thrown(Err(400, JoiNameError(body.name)))
  ELSE IF body.done.t # "undefined" /\ ~JoiIsBoolean(body.done)
    THEN Thrown(Err(400, "\"done\" must be a boolean"))
  ELSE IF body.id.t # "undefined" THEN Thrown(Err(400, "\"id\" is not allowed"))
  ELSE Returned([name |-> body.name.v, done |-> JoiDone(body.done)])

\* The fallback of validateItem, used when Joi is not installed.
FallbackValidate(body) ==
  IF \/ body = Undefined
     \/ ~IsString(body.name)
     \/ Trim(body.name.v) = <<>>
  THEN Thrown(Err(400, "name is required"))
  ELSE Returned([name |-> Trim(body.name.v), done |-> Truthy(body.done)])

validateItem(body) ==
  IF joi THEN SchemaValidate(body) ELSE FallbackValidate(body)

-----------------------------------------------------------------------------
(* The store *)

\* An item carries, besides the fields the code gives it, the history field
\* born: the rank of its creation (the seed items are 1 and 2).
SeedItems ==
  << [id |-> <<"1">>, name |-> <<"F", "i", "r", "s", "t">>, done |-> FALSE, born |-> 1],
     [id |-> <<"2">>, name |-> <<"S", "e", "c", "o", "n", "d">>, done |-> TRUE, born |-> 2] >>

\* { ...a, ...b }: the fields of b over those of a.  The spread of undefined,
\* which is <<>> here, adds nothing.
Spread(a, b) ==
  [k \in DOMAIN a \cup DOMAIN b |-> IF k \in DOMAIN b THEN b[k] ELSE a[k]]

\* const item = { id, ...validated }
NewItem(id, validated, rank) == Spread([id |-> id, born |-> rank], validated)

\* A push at the wrong end: store.items.unshift(item).
Unshift(list, item) == <<item>> \o list

\* store.items.push(item)
Push(list, item) == Append(list, item)

\* findIndex whose -1 is used as an index from the end: the last item.
FindIndexOrLast(list, id) ==
  IF \E i \in 1..Len(list) : list[i].id = id
  THEN CHOOSE i \in 1..Len(list) :
         list[i].id = id /\ \A j \in 1..(i - 1) : list[j].id # id
  ELSE Len(list)

\* list.findIndex((x) => x.id === id), counted from 1; 0 stands for -1.
RECURSIVE FindIndex(_, _)
FindIndex(list, id) ==
  IF list = <<>> THEN 0
  ELSE IF Head(list).id = id THEN 1
  ELSE LET r == FindIndex(Tail(list), id) IN IF r = 0 THEN 0 ELSE r + 1

\* The spreads in the wrong order: { ...validated, ...store.items[idx] }.
ReplaceAtKeepOld(list, idx, validated) ==
  [list EXCEPT ![idx] = Spread(validated, list[idx])]

\* store.items[idx] = { ...store.items[idx], ...validated }
ReplaceAt(list, idx, validated) ==
  [list EXCEPT ![idx] = Spread(list[idx], validated)]

\* Removal of the first match only: list.splice(list.findIndex(...), 1).
FilterFirst(list, id) ==
  LET i == FindIndex(list, id)
  IN IF i = 0 THEN list ELSE SubSeq(list, 1, i - 1) \o SubSeq(list, i + 1, Len(list))

\* list.filter((x) => x.id !== id)
Filter(list, id) == SelectSeq(list, LAMBDA x : x.id # id)

-----------------------------------------------------------------------------
(* Responses *)

\* No response has been sent yet.
NoResponse == [status |-> 0, json |-> [none |-> TRUE], by |-> "none"]

\* res.status(status).json(json), sent by a route handler.
Reply(status, json) == [status |-> status, json |-> json, by |-> "route"]

\* err.status || 500
ErrorStatus(err) ==
  IF "status" \in DOMAIN err /\ err.status # 0 THEN err.status ELSE DefaultErrorStatus

\* err.message || 'internal_error'
ErrorText(err) == IF err.message # "" THEN err.message ELSE "internal_error"

\* The central error handler.
errorHandler(err) ==
  [status |-> ErrorStatus(err), json |-> [error |-> ErrorText(err)], by |-> "errorHandler"]

\* A token check that tests token === undefined instead of !token.
authStubDefinedOnly(token) ==
  IF token.t = "undefined" THEN Thrown(Err(401, "missing token"))
  ELSE Returned([id |-> "user-123", token |-> token.v])

\* authStub: next(err) when the token is falsy, else req.user is set.
authStub(token) ==
  IF ~Truthy(token) THEN Thrown(Err(401, "missing token"))
  ELSE Returned([id |-> "user-123", token |-> token.v])

-----------------------------------------------------------------------------
(* Inputs *)

Body(name, done, id) == [t |-> "object", name |-> name, done |-> done, id |-> id]

\* What req.body may be after express.json(): objects, and undefined when the
\* request carried no JSON body and the parser leaves req.body unset.
BodyList ==
  << Body(StrV(<<" ", "a", " ">>), Undefined, Undefined),
     Body(StrV(<<"a">>), BoolV(TRUE), Undefined),
     Body(StrV(<<" ", "\t">>), Undefined, Undefined),
     Body(StrV(<<>>), BoolV(TRUE), Undefined),
     Body(StrV(Rep(MaxNameLen + 1)), Undefined, Undefined),
     Body(StrV(<<"a">>), BoolV(TRUE), StrV(<<"1">>)),
     Body(Undefined, Undefined, Undefined),
     Undefined >>

\* What req.params.id may be: the id of a seed item and the ids POST can
\* give, each of which the store may hold or not when the request arrives.
IdParams == {<<"1">>} \cup {ToString(n) : n \in T0..MaxNow}

\* What req.headers['x-demo-token'] may be.
Tokens == {Undefined, StrV(<<>>), StrV(<<"0">>)}

\* Errors that reach the error handler from outside validateItem and authStub.
OtherErrors ==
  { Err(400, "Unexpected token } in JSON at position 7"),
    PlainErr("connect ECONNREFUSED 10.0.0.5:5432"),
    PlainErr("") }

Signals == {"SIGINT", "SIGTERM"}

-----------------------------------------------------------------------------
(* Requests.  A request is handled to completion by a running process.     *)

Running == exit = <<>>

\* GET /items
GetItems ==
  /\ Running
  /\ res' = Reply(200, [data |-> items])
  /\ req' = [op |-> "GET /items"]
  /\ UNCHANGED <<joi, items, now, nPost, nDel, nGone, lifeVars>>

\* POST /items
PostItem(body) ==
  LET v == validateItem(body)
      item == NewItem(ToString(now), v.value, Len(SeedItems) + nPost + 1)
  IN /\ Running
     /\ v.ok => nPost < MaxPosts
     /\ IF v.ok
        THEN /\ items' = Push(items, item)
             /\ nPost' = nPost + 1
             /\ res' = Reply(201, [item |-> item])
        ELSE /\ UNCHANGED <<items, nPost>>
             /\ res' = errorHandler(v.err)
     /\ req' = [op |-> "POST /items", body |-> body]
     /\ UNCHANGED <<joi, now, nDel, nGone, lifeVars>>

\* PUT /items/:id
PutItem(id, body) ==
  LET v == validateItem(body)
      idx == FindIndex(items, id)
  IN /\ Running
     /\ IF ~v.ok
        THEN /\ UNCHANGED items
             /\ res' = errorHandler(v.err)
        ELSE IF idx = 0
        THEN /\ UNCHANGED items
             /\ res' = Reply(404, [error |-> "not_found"])
        ELSE /\ items' = ReplaceAt(items, idx, v.value)
             /\ res' = Reply(200, [item |-> items'[idx]])
     /\ req' = [op |-> "PUT /items/:id", id |-> id, body |-> body]
     /\ UNCHANGED <<joi, now, nPost, nDel, nGone, lifeVars>>

\* DELETE /items/:id
DeleteItem(id) ==
  LET removed == Len(items) # Len(items')
  IN /\ Running
     /\ items' = Filter(items, id)
     /\ res' = Reply(200, [removed |-> removed])
     /\ req' = [op |-> "DELETE /items/:id", id |-> id]
     /\ nDel' = IF removed THEN nDel + 1 ELSE nDel
     /\ nGone' = nGone + (Len(items) - Len(items'))
     /\ UNCHANGED <<joi, now, nPost, lifeVars>>

\* GET /me
GetMe(token) ==
  LET a == authStub(token)
  IN /\ Running
     /\ res' = (IF a.ok THEN Reply(200, [user |-> a.value]) ELSE errorHandler(a.err))
     /\ req' = [op |-> "GET /me", token |-> token]
     /\ UNCHANGED <<joi, items, now, nPost, nDel, nGone, lifeVars>>

\* A failure raised elsewhere in the chain, passed to the error handler.
RequestFails(err) ==
  /\ Running
  /\ res' = errorHandler(err)
  /\ req' = [op |-> "failure", err |-> err]
  /\ UNCHANGED <<joi, items, now, nPost, nDel, nGone, lifeVars>>

\* A millisecond passes.
Tick ==
  /\ exit = <<>>
  /\ now < MaxNow
  /\ now' = now + 1
  /\ UNCHANGED <<joi, items, req, res, nPost, nDel, nGone, lifeVars>>

-----------------------------------------------------------------------------
(* start(): connections and graceful shutdown *)

\* The server accepts a connection.
Connect ==
  /\ exit = <<>>
  /\ phase = "listening"
  /\ conns < MaxConns
  /\ conns' = conns + 1
  /\ UNCHANGED <<joi, items, now, req, res, nPost, nDel, nGone,
                 phase, timers, closeCbs, sigs, closed, fired, exit>>

\* A connection ends.
Disconnect ==
  /\ exit = <<>>
  /\ conns > 0
  /\ conns' = conns - 1
  /\ UNCHANGED <<joi, items, now, req, res, nPost, nDel, nGone,
                 phase, timers, closeCbs, sigs, closed, fired, exit>>

\* server.close(cb): one more callback waits for 'close'.
RegisterClose(n) == n + 1

\* A shutdown that sets no force-exit timeout.
NoDeadline(n) == n

\* setTimeout(() => process.exit(1), 5000): one more pending timeout.
ArmDeadline(n) == n + 1

\* 'close' is emitted once the server accepts nothing and no connection is left.
CloseReady(ph, c) == ph = "closing" /\ c = 0

\* shutdown, run on SIGINT and on SIGTERM.
shutdown(sig) ==
  /\ exit = <<>>
  /\ Len(sigs) < MaxSignals
  /\ sigs' = Append(sigs, sig)
  /\ phase' = "closing"
  /\ closeCbs' = RegisterClose(closeCbs)
  /\ timers' = ArmDeadline(timers)
  /\ UNCHANGED <<joi, items, now, req, res, nPost, nDel, nGone,
                 conns, closed, fired, exit>>

\* The server emits 'close' and the callback calls process.exit(0).
CloseDone ==
  /\ exit = <<>>
  /\ closeCbs > 0
  /\ CloseReady(phase, conns)
  /\ closed' = TRUE
  /\ exit' = <<ExitGraceful>>
  /\ phase' = "exited"
  /\ UNCHANGED <<joi, items, now, req, res, nPost, nDel, nGone,
                 conns, timers, closeCbs, sigs, fired>>

\* A force-exit timeout fires and calls process.exit(1).
DeadlineFires ==
  /\ exit = <<>>
  /\ timers > 0
  /\ fired' = TRUE
  /\ exit' = <<ExitForced>>
  /\ phase' = "exited"
  /\ UNCHANGED <<joi, items, now, req, res, nPost, nDel, nGone,
                 conns, timers, closeCbs, sigs, closed>>

-----------------------------------------------------------------------------
(* Specifications *)

Init ==
  /\ joi \in BOOLEAN
  /\ items = SeedItems
  /\ now = T0
  /\ res = NoResponse
  /\ req = [op |-> "none"]
  /\ nPost = 0
  /\ nDel = 0
  /\ nGone = 0
  /\ phase = "listening"
  /\ conns = 0
  /\ timers = 0
  /\ closeCbs = 0
  /\ sigs = <<>>
  /\ closed = FALSE
  /\ fired = FALSE
  /\ exit = <<>>

\* The running server: requests and the clock.
Next ==
  \/ GetItems
  \/ \E i \in DOMAIN BodyList : PostItem(BodyList[i])
  \/ \E id \in IdParams, i \in DOMAIN BodyList : PutItem(id, BodyList[i])
  \/ \E id \in IdParams : DeleteItem(id)
  \/ \E token \in Tokens : GetMe(token)
  \/ \E err \in OtherErrors : RequestFails(err)
  \/ Tick

Spec == Init /\ [][Next]_vars

\* The life of the process: connections, termination signals, exit.
LifeNext ==
  \/ Connect
  \/ Disconnect
  \/ \E sig \in Signals : shutdown(sig)
  \/ CloseDone
  \/ DeadlineFires

\* Node runs a timeout that is due: a pending force-exit timeout fires.
LifeSpec == Init /\ [][LifeNext]_vars /\ WF_vars(DeadlineFires)

-----------------------------------------------------------------------------
(* What the claims speak of, stated without the operators of the model *)

\* Some item of list has this id.
Known(list, id) == \E i \in 1..Len(list) : list[i].id = id

\* The position of the first item of list with this id.
FirstWith(list, id) ==
  CHOOSE i \in 1..Len(list) : list[i].id = id /\ \A j \in 1..(i - 1) : list[j].id # id

\* The items of list with another id, in their order.
RECURSIVE Others(_, _)
Others(list, id) ==
  IF list = <<>> THEN <<>>
  ELSE IF Head(list).id = id THEN Others(Tail(list), id)
  ELSE <<Head(list)>> \o Others(Tail(list), id)

\* A name that is the empty string or white space only.
IsBlank(v) == v.t = "string" /\ \A i \in 1..Len(v.v) : v.v[i] \in {" ", "\t", "\n"}

\* The token header is absent or empty.
NoToken(token) == token = Undefined \/ token = StrV(<<>>)

-----------------------------------------------------------------------------
(* C1 *)

\* C1: no two items of the store have the same id, whatever POST, PUT and
\* DELETE requests were handled.
C1_UniqueIds ==
  \A i, j \in 1..Len(items) : i # j => items[i].id # items[j].id

-----------------------------------------------------------------------------
(* C2 *)

\* The step handles a PUT /items/:id, recorded in req'.
PutStep == req'.op = "PUT /items/:id" /\ PutItem(req'.id, req'.body)

\* C2, as stated: a PUT whose id matches no item is answered 404, whatever
\* the body, and leaves the store as it was.
C2_AlwaysNotFound ==
  [][(PutStep /\ ~Known(items, req'.id))
       => (res'.status = 404 /\ items' = items)]_vars

\* C2, amended: a PUT whose id matches no item leaves the store as it was and
\* is answered 404 when the body passes validation, 400 when it does not.
C2_PutUnknownId ==
  [][(PutStep /\ ~Known(items, req'.id))
       => /\ items' = items
          /\ res'.status = (IF validateItem(req'.body).ok THEN 404 ELSE 400)]_vars

\* A PUT with an id the store does not hold and a valid body has been answered.
C2_Witness ==
  /\ req.op = "PUT /items/:id"
  /\ ~Known(items, req.id)
  /\ res = Reply(404, [error |-> "not_found"])

-----------------------------------------------------------------------------
(* C3 *)

\* The step handles a POST /items, recorded in req'.
PostStep == req'.op = "POST /items" /\ PostItem(req'.body)

\* C3: a POST whose name is empty or white space only is answered 400 and
\* appends nothing, with the schema and with the fallback.
C3_BlankNameRefused ==
  [][(PostStep /\ req'.body # Undefined /\ IsBlank(req'.body.name))
       => (res'.status = 400 /\ items' = items)]_vars

-----------------------------------------------------------------------------
(* C4 *)

\* The step handles a GET /items.
GetItemsStep == req'.op = "GET /items" /\ GetItems

\* C4, as stated: after N POSTs answered 201 and M DELETEs answered
\* removed:true, GET /items returns exactly N - M items.
C4_CountIsPostsMinusDeletes ==
  [][GetItemsStep => Len(res'.json.data) + nDel = nPost]_vars

\* C4, amended: GET /items returns the two seed items and the N appended ones
\* less the items deleted, of which each DELETE answered removed:true took at
\* least one (so at most 2 + N - M items), in the order of their creation.
C4_SeedPlusPostsMinusGone ==
  [][GetItemsStep =>
       LET data == res'.json.data
       IN /\ Len(data) + nGone = Len(SeedItems) + nPost
          /\ nDel <= nGone
          /\ Len(data) + nDel <= Len(SeedItems) + nPost
          /\ \A i, j \in 1..Len(data) : i < j => data[i].born < data[j].born]_vars

\* GET /items has answered after two appends and a delete, with a seed item
\* and both appended items in it.
C4_Witness ==
  /\ req.op = "GET /items"
  /\ nPost = 2 /\ nDel = 1
  /\ Len(res.json.data) = 3
  /\ res.json.data[1].born = 2

-----------------------------------------------------------------------------
(* C5 *)

\* The step handles a DELETE /items/:id, recorded in req'.
DeleteStep == req'.op = "DELETE /items/:id" /\ DeleteItem(req'.id)

\* The request before the step was a DELETE of the same id, answered
\* removed:true.
SecondDelete ==
  /\ req.op = "DELETE /items/:id"
  /\ req.id = req'.id
  /\ res.json = [removed |-> TRUE]

\* C5: a DELETE of an id the store holds answers removed:true and leaves the
\* other items in their order; the DELETE of the same id right after it
\* answers removed:false and leaves the store as the first one left it.
C5_DeleteIdempotent ==
  [][DeleteStep =>
       /\ Known(items, req'.id)
            => (res'.json = [removed |-> TRUE] /\ items' = Others(items, req'.id))
       /\ SecondDelete => (res'.json = [removed |-> FALSE] /\ items' = items)]_vars

\* Item 1 was deleted, and the DELETE of 1 asked again answered removed:false.
C5_Witness ==
  /\ req = [op |-> "DELETE /items/:id", id |-> <<"1">>]
  /\ res.json = [removed |-> FALSE]
  /\ nDel = 1 /\ nGone = 1 /\ nPost = 0
  /\ items = <<SeedItems[2]>>

-----------------------------------------------------------------------------
(* C6 *)

\* C6: every item of the store has a name that is not empty after trimming
\* and is 1 to 120 characters long, and a boolean done.
C6_ItemsWellFormed ==
  \A i \in 1..Len(items) :
    /\ "name" \in DOMAIN items[i]
    /\ ~IsBlank(StrV(items[i].name))
    /\ Len(items[i].name) >= MinNameLen
    /\ Len(items[i].name) <= MaxNameLen
    /\ "done" \in DOMAIN items[i]
    /\ items[i].done \in BOOLEAN

-----------------------------------------------------------------------------
(* C7 *)

\* C7: a PUT with a valid body and an id the store holds changes the first
\* item with that id only: same id, same position, name and done as
\* validated (done FALSE when the body has none), every other item and the
\* number of items as before.
C7_PutReplacesOneItem ==
  [][(/\ PutStep
      /\ req'.body # Undefined
      /\ validateItem(req'.body).ok
      /\ Known(items, req'.id))
       => LET k == FirstWith(items, req'.id)
              v == validateItem(req'.body).value
          IN /\ res'.status = 200
             /\ Len(items') = Len(items)
             /\ \A j \in 1..Len(items) : j # k => items'[j] = items[j]
             /\ items'[k].id = items[k].id
             /\ items'[k].born = items[k].born
             /\ items'[k].name = v.name
             /\ items'[k].done = v.done
             /\ req'.body.done = Undefined => items'[k].done = FALSE
             /\ res'.json = [item |-> items'[k]]]_vars

\* A PUT has replaced name and done of seed item 1, which is still first.
C7_Witness ==
  /\ req.op = "PUT /items/:id" /\ req.id = <<"1">>
  /\ res.status = 200
  /\ res.json.item.id = <<"1">>
  /\ res.json.item.name = <<"a">>
  /\ res.json.item.done = TRUE
  /\ items # <<>> /\ items[1] = res.json.item

-----------------------------------------------------------------------------
(* C8 *)

\* C8: once SIGINT or SIGTERM has been delivered the process exits; it exits
\* with 0 only when the server closed (no connection left) and no force-exit
\* timeout had fired, and with 1 when a force-exit timeout fired; so too when
\* a second signal is delivered during the shutdown.
C8_ShutdownExits ==
  /\ (sigs # <<>>) ~> (exit # <<>>)
  /\ [](exit = <<ExitGraceful>> => (closed /\ ~fired /\ conns = 0 /\ sigs # <<>>))
  /\ [](fired => exit = <<ExitForced>>)
  /\ [](exit # <<>> => (closed \/ fired))

\* The process was forced out after a second signal, a connection still open.
C8_Witness ==
  /\ Len(sigs) = 2
  /\ exit = <<ExitForced>>
  /\ conns > 0

-----------------------------------------------------------------------------
(* C9 *)

\* The step passes a failure, recorded in req', to the error handler.
FailureStep == req'.op = "failure" /\ RequestFails(req'.err)

\* C9: a failure without a status is answered 500 with the generic envelope
\* {error: 'internal_error'}, its own message withheld; a failure with a
\* status is answered with that status and {error: message}.
C9_GenericInternalError ==
  [][FailureStep =>
       IF "status" \in DOMAIN req'.err
       THEN res'.status = req'.err.status /\ res'.json = [error |-> req'.err.message]
       ELSE res'.status = DefaultErrorStatus
            /\ res'.json = [error |-> "internal_error"]]_vars

-----------------------------------------------------------------------------
(* C10 *)

\* The step handles a GET /me, recorded in req'.
MeStep == req'.op = "GET /me" /\ GetMe(req'.token)

\* C10: GET /me is answered 401 exactly when the token header is absent or
\* empty, and else 200 with a user that carries the token; the route handler
\* answers only when the token check passed; the store is as before.
C10_MeNeedsToken ==
  [][MeStep =>
       /\ (res'.status = 401) <=> NoToken(req'.token)
       /\ NoToken(req'.token) => res'.by = "errorHandler"
       /\ ~NoToken(req'.token)
            => /\ res'.status = 200
               /\ res'.by = "route"
               /\ res'.json.user.token = req'.token.v
       /\ items' = items]_vars

\* GET /me without a token has been refused.
C10_Witness ==
  /\ req = [op |-> "GET /me", token |-> Undefined]
  /\ res.status = 401
  /\ res.by = "errorHandler"
  /\ res.json = [error |-> "missing token"]

====
